---- MODULE Spec2Model ----
(***************************************************************************)
(* Model of the Alexa smart-home -> Home Assistant Lambda adapter          *)
(* (main.go): NewLambdaHandler, LambdaHandler.HandleRequest, extractScope, *)
(* errorType and createHTTPClient.                                         *)
(*                                                                         *)
(* Go values of type interface{} produced by JSON decoding are tagged      *)
(* records: [t |-> "nil"], [t |-> "str", s |-> ...], [t |-> "num", ...],   *)
(* [t |-> "arr", a |-> <<...>>] and [t |-> "obj", m |-> f] where f is a    *)
(* function from key strings to values (a Go map[string]interface{}).      *)
(***************************************************************************)
EXTENDS Integers, Sequences, FiniteSets, TLC

VARIABLES h, pc, event, ctxDone, client, request, httpCalls, reply, result

vars == <<h, pc, event, ctxDone, client, request, httpCalls, reply, result>>

\* Number of HandleRequest invocations the hosting runtime may run in parallel.
NumInv == 2

Invs == 1..NumInv

(***************************************************************************)
(* JSON / Go values                                                        *)
(***************************************************************************)
Nil == [t |-> "nil"]

JStr(s) == [t |-> "str", s |-> s]

JNum(n) == [t |-> "num", n |-> n]

JArr(a) == [t |-> "arr", a |-> a]

JObj(m) == [t |-> "obj", m |-> m]

\* A map built from <<key, value>> pairs; a pair whose value is Nil is left out
\* (the key is absent from the map).
MapOf(pairs) ==
    LET present == {p \in pairs : p[2] # Nil}
    IN  [k \in {p[1] : p \in present} |-> (CHOOSE p \in present : p[1] = k)[2]]

\* Go: v, ok := m[k].(map[string]interface{}) on a map m. The lookup of an
\* absent key yields the nil interface, whose type assertion fails.
Lookup(m, k) == IF k \in DOMAIN m THEN m[k] ELSE Nil

IsMap(v) == v.t = "obj"

\* Go: s, _ := v.(string): the zero value "" when v is not a string.
AsString(v) == IF v.t = "str" THEN v.s ELSE ""

(***************************************************************************)
(* Process environment and NewLambdaHandler (main.go 29-59, 179-188)       *)
(***************************************************************************)
\* A string is a sequence of chunks; "/" is a chunk of its own so that
\* strings.TrimRight(s, "/") can be computed.
RECURSIVE TrimRight(_, _)
TrimRight(s, cut) ==
    IF s # <<>> /\ s[Len(s)] = cut
    THEN TrimRight(SubSeq(s, 1, Len(s) - 1), cut)
    ELSE s

BaseURLValues ==
    { <<>>, <<"/">>,
      <<"http://ha.local:8123">>,
      <<"http://ha.local:8123", "/">>,
      <<"http://ha.local:8123", "/", "/">>,
      <<":bad">>, <<":bad", "/">> }

Environments ==
    [ BASE_URL : BaseURLValues,
      DEBUG : {"true", ""},
      LONG_LIVED_ACCESS_TOKEN : {"llat"},
      NOT_VERIFY_SSL : {"true", ""},
      TS_AUTHKEY : {"", "tskey"} ]

\* main(): the tsnet server is non-nil exactly when TS_AUTHKEY is set.
TSNetServerOf(env) == env.TS_AUTHKEY # ""

\* NewLambdaHandler panics when the trimmed BASE_URL is empty.
Panics(env) == TrimRight(env.BASE_URL, "/") = <<>>

NewLambdaHandler(env) ==
    [ BaseURL |-> TrimRight(env.BASE_URL, "/"),
      Debug |-> (env.DEBUG = "true"),
      LongLivedToken |-> env.LONG_LIVED_ACCESS_TOKEN,
      VerifySSL |-> (env.NOT_VERIFY_SSL # "true"),
      TSNetServer |-> TSNetServerOf(env) ]

Handlers == {NewLambdaHandler(env) : env \in {e \in Environments : ~Panics(e)}}

(***************************************************************************)
(* Incoming events (the documents the Lambda runtime hands to the handler) *)
(***************************************************************************)
\* Values found where a scope object is looked for: nothing, a value that is
\* not an object, and scope objects.
BearerScope(token) == JObj(MapOf({<<"type", JStr("BearerToken")>>, <<"token", token>>}))

BasicScope == JObj(MapOf({<<"type", JStr("Basic")>>, <<"token", JStr("tokB")>>}))

ScopeObjects == {BearerScope(JStr("tokA")), BearerScope(JStr("")), BearerScope(Nil), BasicScope}

ScopeSlots == {Nil, JStr("scope")} \cup ScopeObjects

HeaderOf(version) ==
    JObj(MapOf({<<"namespace", JStr("Alexa.Discovery")>>,
                <<"name", JStr("Discover")>>,
                <<"payloadVersion", version>>,
                <<"messageId", JStr("m1")>>}))

Headers ==
    {Nil, JStr("header")} \cup {HeaderOf(v) : v \in {JStr("3"), JStr("2"), JNum(3), Nil}}

DirectiveOf(hd, ep, pl) ==
    JObj(MapOf({<<"header", hd>>, <<"endpoint", ep>>, <<"payload", pl>>}))

EventOf(d) == JObj(MapOf({<<"messageId", JStr("m0")>>, <<"directive", d>>}))

EndpointOf(s) == JObj(MapOf({<<"endpointId", JStr("e1")>>, <<"scope", s>>}))

PayloadOf(g, s) == JObj(MapOf({<<"name", JStr("p1")>>, <<"grantee", g>>, <<"scope", s>>}))

Endpoints == {Nil, JStr("endpoint")} \cup {EndpointOf(s) : s \in ScopeSlots}

Payloads == {Nil, JStr("payload")} \cup {PayloadOf(g, s) : g \in ScopeSlots, s \in ScopeSlots}

Directives == {DirectiveOf(hd, ep, pl) : hd \in Headers, ep \in Endpoints, pl \in Payloads}

Events == {EventOf(d) : d \in {Nil, JStr("directive")} \cup Directives}

\* The events of the runs with several invocations in parallel.
ConcEvents ==
    { EventOf(DirectiveOf(HeaderOf(JStr("3")), EndpointOf(BearerScope(JStr("tokA"))), Nil)),
      EventOf(DirectiveOf(HeaderOf(JStr("3")), Nil, PayloadOf(BearerScope(JStr("tokC")), Nil))),
      EventOf(DirectiveOf(HeaderOf(JStr("3")), Nil, PayloadOf(Nil, BearerScope(Nil)))),
      EventOf(DirectiveOf(HeaderOf(JStr("3")), EndpointOf(BasicScope), Nil)),
      EventOf(DirectiveOf(HeaderOf(JStr("2")), EndpointOf(BearerScope(JStr("tokA"))), Nil)) }

(***************************************************************************)
(* HandleRequest, validation part (main.go 61-89)                          *)
(***************************************************************************)
NoErr == "<nil>"

ErrMissingDirective == "malformatted request - missing directive"

ErrPayloadVersion == "only support payloadVersion == 3"

ErrMissingScope == "malformatted request - missing endpoint.scope"

ErrBearerToken == "only support BearerToken"

\* main.go 95-98. An event is a decoded JSON document, which json.Marshal
\* always encodes: no invocation returns this error.
ErrSerialize == "failed to serialize event"

ErrInternal == "internal server error"

ErrDecode == "error decoding response"

\* Variant: a directive without a header object is let through.
HeaderRejectedOnlyWhenPresent(directive) ==
    LET header == Lookup(directive.m, "header")
    IN  IsMap(header) /\ Lookup(header.m, "payloadVersion") # JStr("3")

\* main.go 70-71: header, ok := directive["header"].(map...);
\* !ok || header["payloadVersion"] != "3"
HeaderRejected(directive) ==
    LET header == Lookup(directive.m, "header")
    IN  \/ ~IsMap(header)
        \/ Lookup(header.m, "payloadVersion") # JStr("3")

\* Variant: payload.scope is tried before payload.grantee and endpoint.scope.
extractScopeReversed(directive) ==
    LET endpoint == Lookup(directive.m, "endpoint")
        payload == Lookup(directive.m, "payload")
    IN  IF IsMap(payload) /\ IsMap(Lookup(payload.m, "scope"))
        THEN Lookup(payload.m, "scope")
        ELSE IF IsMap(payload) /\ IsMap(Lookup(payload.m, "grantee"))
        THEN Lookup(payload.m, "grantee")
        ELSE IF IsMap(endpoint) /\ IsMap(Lookup(endpoint.m, "scope"))
        THEN Lookup(endpoint.m, "scope")
        ELSE Nil

\* Variant: an empty map, not nil, when no location holds a scope.
extractScopeEmptyMap(directive) ==
    LET endpoint == Lookup(directive.m, "endpoint")
        payload == Lookup(directive.m, "payload")
    IN  IF IsMap(endpoint) /\ IsMap(Lookup(endpoint.m, "scope"))
        THEN Lookup(endpoint.m, "scope")
        ELSE IF IsMap(payload) /\ IsMap(Lookup(payload.m, "grantee"))
        THEN Lookup(payload.m, "grantee")
        ELSE IF IsMap(payload) /\ IsMap(Lookup(payload.m, "scope"))
        THEN Lookup(payload.m, "scope")
        ELSE JObj(MapOf({}))

\* main.go 133-148
extractScope(directive) ==
    LET endpoint == Lookup(directive.m, "endpoint")
        payload == Lookup(directive.m, "payload")
    IN  IF IsMap(endpoint) /\ IsMap(Lookup(endpoint.m, "scope"))
        THEN Lookup(endpoint.m, "scope")
        ELSE IF IsMap(payload) /\ IsMap(Lookup(payload.m, "grantee"))
        THEN Lookup(payload.m, "grantee")
        ELSE IF IsMap(payload) /\ IsMap(Lookup(payload.m, "scope"))
        THEN Lookup(payload.m, "scope")
        ELSE Nil

\* main.go 81-82
ScopeTypeOf(scope) == AsString(Lookup(scope.m, "type"))

\* Variant: the fallback token is substituted whatever the debug flag.
ResolveTokenAlwaysFallback(scope, hh) ==
    LET token == AsString(Lookup(scope.m, "token"))
    IN  IF token = "" THEN hh.LongLivedToken ELSE token

\* main.go 86-89
ResolveToken(scope, hh) ==
    LET token == AsString(Lookup(scope.m, "token"))
    IN  IF token = "" /\ hh.Debug THEN hh.LongLivedToken ELSE token

\* main.go 150-155 (defined by the program, called from nowhere)
errorType(statusCode) ==
    IF statusCode = 401 \/ statusCode = 403
    THEN "INVALID_AUTHORIZATION_CREDENTIAL"
    ELSE "INTERNAL_ERROR"

\* The error of the validation steps, in program order; NoErr when all pass.
ValidationError(ev) ==
    LET directive == Lookup(ev.m, "directive")
    IN  IF ~IsMap(directive) THEN ErrMissingDirective
        ELSE IF HeaderRejected(directive) THEN ErrPayloadVersion
        ELSE IF extractScope(directive) = Nil THEN ErrMissingScope
        ELSE IF ScopeTypeOf(extractScope(directive)) # "BearerToken" THEN ErrBearerToken
        ELSE NoErr

(***************************************************************************)
(* createHTTPClient (main.go 157-177)                                      *)
(***************************************************************************)
\* client.Timeout = 10 * time.Second, in seconds.
TimeoutSeconds == 10

\* tsnet.Server.HTTPClient(): an http.Client whose transport dials through
\* the tailnet; its Timeout field is the zero value (no timeout).
TSNetHTTPClient == [Transport |-> "tsnet", Timeout |-> 0, InsecureSkipVerify |-> FALSE]

createHTTPClient(hh) ==
    IF hh.TSNetServer
    THEN TSNetHTTPClient
    ELSE [ Transport |-> IF hh.VerifySSL THEN "default" ELSE "custom",
           Timeout |-> TimeoutSeconds,
           InsecureSkipVerify |-> ~hh.VerifySSL ]

(***************************************************************************)
(* json.Marshal(event) (main.go 94): object members in sorted key order    *)
(***************************************************************************)
\* The keys that occur in events, in the byte order encoding/json sorts by.
KeyOrder ==
    << "directive", "endpoint", "endpointId", "grantee", "header", "messageId",
       "name", "namespace", "payload", "payloadVersion", "scope", "token", "type" >>

Quote(s) == "\"" \o s \o "\""

RECURSIVE Marshal(_), MarshalMembers(_, _), MarshalElements(_)
Marshal(v) ==
    CASE v.t = "nil" -> <<"null">>
      [] v.t = "str" -> <<Quote(v.s)>>
      [] v.t = "num" -> <<ToString(v.n)>>
      [] v.t = "arr" -> <<"[">> \o MarshalElements(v.a) \o <<"]">>
      [] v.t = "obj" ->
            <<"{">> \o MarshalMembers(v.m, SelectSeq(KeyOrder, LAMBDA k : k \in DOMAIN v.m))
                \o <<"}">>

MarshalMembers(m, keys) ==
    IF keys = <<>> THEN <<>>
    ELSE <<Quote(Head(keys)), ":">> \o Marshal(m[Head(keys)])
            \o (IF Len(keys) > 1 THEN <<",">> ELSE <<>>)
            \o MarshalMembers(m, Tail(keys))

MarshalElements(a) ==
    IF a = <<>> THEN <<>>
    ELSE Marshal(Head(a)) \o (IF Len(a) > 1 THEN <<",">> ELSE <<>>)
            \o MarshalElements(Tail(a))

(***************************************************************************)
(* http.NewRequest and the request headers (main.go 101-107)               *)
(***************************************************************************)
\* fmt.Sprintf("%s/api/alexa/smart_home", h.BaseURL)
RequestURL(hh) == hh.BaseURL \o <<"/api/alexa/smart_home">>

\* url.Parse inside http.NewRequest rejects a URL that starts with a colon
\* ("missing protocol scheme"); the chunk ":bad" stands for such a BASE_URL.
URLParses(url) == Head(url) # ":bad"

\* Variant: the header value of a request another invocation has in flight is
\* reused (a header object shared between invocations).
AuthorizationShared(token) ==
    IF \E j \in Invs : pc[j] = "inflight"
    THEN request[CHOOSE j \in Invs : pc[j] = "inflight"].Authorization
    ELSE "Bearer " \o token

\* fmt.Sprintf("Bearer %s", token)
AuthorizationOf(token) == "Bearer " \o token

BuildRequest(ev, hh) ==
    [ Method |-> "POST",
      URL |-> RequestURL(hh),
      Authorization |-> AuthorizationOf(ResolveToken(extractScope(Lookup(ev.m, "directive")), hh)),
      ContentType |-> "application/json",
      Body |-> Marshal(ev) ]

(***************************************************************************)
(* Backend replies and json.NewDecoder(resp.Body).Decode (main.go 122-123) *)
(***************************************************************************)
\* A response body is a stream of JSON texts. A text is written as it stands
\* on the wire: an object is the sequence of its <<key, text>> members (a key
\* may repeat), "bad" is text that is not JSON.
WNull == [w |-> "null"]

WBad == [w |-> "bad"]

WStr(s) == [w |-> "str", s |-> s]

WArr(a) == [w |-> "arr", a |-> a]

WObj(members) == [w |-> "obj", members |-> members]

\* The value encoding/json builds for a text decoded into interface{}: for a
\* repeated key the last member wins.
RECURSIVE FromWire(_)
FromWire(x) ==
    CASE x.w = "null" -> Nil
      [] x.w = "str" -> JStr(x.s)
      [] x.w = "arr" -> JArr([j \in 1..Len(x.a) |-> FromWire(x.a[j])])
      [] x.w = "obj" ->
            JObj([k \in {x.members[j][1] : j \in 1..Len(x.members)} |->
                    LET last == CHOOSE j \in 1..Len(x.members) :
                                    /\ x.members[j][1] = k
                                    /\ \A l \in (j + 1)..Len(x.members) : x.members[l][1] # k
                    IN  FromWire(x.members[last][2])])

\* Variant: the decoder's error is dropped.
DecodeIgnoringError(body) ==
    IF body # <<>> /\ Head(body).w = "obj"
    THEN <<FromWire(Head(body)), NoErr>>
    ELSE <<Nil, NoErr>>

\* Decode(&responseBody) with responseBody a nil map[string]interface{}: reads
\* the first text of the stream only. Yields <<document, error>>.
Decode(body) ==
    IF body = <<>> THEN <<Nil, ErrDecode>>
    ELSE CASE Head(body).w = "obj" -> <<FromWire(Head(body)), NoErr>>
           [] Head(body).w = "null" -> <<Nil, NoErr>>
           [] OTHER -> <<Nil, ErrDecode>>

WireDiscover ==
    WObj(<< <<"event",
              WObj(<< <<"header", WObj(<< <<"name", WStr("Discover.Response")>>,
                                          <<"payloadVersion", WStr("3")>> >>)>>,
                      <<"payload", WObj(<< <<"endpoints",
                            WArr(<< WObj(<< <<"endpointId", WStr("device-001")>> >>) >>)>> >>)>>
                   >>)>> >>)

WireRepeated == WObj(<< <<"ok", WStr("first")>>, <<"ok", WStr("second")>> >>)

Bodies ==
    { <<>>, <<WNull>>, <<WBad>>, <<WArr(<<WStr("x")>>)>>, <<WStr("text")>>,
      <<WireDiscover>>, <<WireRepeated>>, <<WireRepeated, WBad>> }

Replies ==
    [status : {200, 399}, body : Bodies]
        \cup [status : {400, 401, 403, 404, 500}, body : {<<>>, <<WireRepeated>>}]

\* The replies of the runs with several invocations in parallel.
ConcReplies ==
    [status : {200}, body : {<<WireDiscover>>, <<WBad>>}] \cup [status : {403, 500}, body : {<<>>}]

\* main.go 116-130: the outcome of HandleRequest once the backend has answered.
Outcome(doc, err) == [doc |-> doc, err |-> err]

HandleResponse(status, body) ==
    IF status >= 400
    THEN Outcome(Nil, "status code: " \o ToString(status))
    ELSE Outcome(Decode(body)[1], Decode(body)[2])

(***************************************************************************)
(* State machine                                                           *)
(*   h         the LambdaHandler built by NewLambdaHandler                 *)
(*   pc        per invocation: "idle", "inflight" (blocked in client.Do),  *)
(*             "done" (HandleRequest has returned)                         *)
(*   event     the event of the invocation                                 *)
(*   ctxDone   whether the invocation's context has been cancelled         *)
(*   client    the client createHTTPClient returned to the invocation      *)
(*   request   the request handed to client.Do                             *)
(*   httpCalls how many requests the invocation has sent to the backend    *)
(*   reply     what client.Do came back with                               *)
(*   result    the (document, error) pair HandleRequest returned           *)
(***************************************************************************)
NoReply == [kind |-> "none"]

NoResult == [doc |-> Nil, err |-> "pending"]

Init ==
    /\ h \in Handlers
    /\ pc = [i \in Invs |-> "idle"]
    /\ event = [i \in Invs |-> Nil]
    /\ ctxDone = [i \in Invs |-> FALSE]
    /\ client = [i \in Invs |-> Nil]
    /\ request = [i \in Invs |-> Nil]
    /\ httpCalls = [i \in Invs |-> 0]
    /\ reply = [i \in Invs |-> NoReply]
    /\ result = [i \in Invs |-> NoResult]

\* main.go 61-109: from the call up to the point where client.Do blocks, or
\* up to the return of a failure found before that.
HandleRequest(i, ev) ==
    /\ pc[i] = "idle"
    /\ event' = [event EXCEPT ![i] = ev]
    /\ IF ValidationError(ev) # NoErr
       THEN /\ pc' = [pc EXCEPT ![i] = "done"]
            /\ result' = [result EXCEPT ![i] = Outcome(Nil, ValidationError(ev))]
            /\ UNCHANGED <<client, request, httpCalls>>
       ELSE /\ client' = [client EXCEPT ![i] = createHTTPClient(h)]
            /\ IF ~URLParses(RequestURL(h))
               THEN /\ pc' = [pc EXCEPT ![i] = "done"]
                    /\ result' = [result EXCEPT ![i] = Outcome(Nil, ErrInternal)]
                    /\ UNCHANGED <<request, httpCalls>>
               ELSE /\ pc' = [pc EXCEPT ![i] = "inflight"]
                    /\ request' = [request EXCEPT ![i] = BuildRequest(ev, h)]
                    /\ httpCalls' = [httpCalls EXCEPT ![i] = @ + 1]
                    /\ UNCHANGED result
    /\ UNCHANGED <<h, ctxDone, reply>>

\* main.go 109, 114-130: client.Do returns the backend's response.
Respond(i, r) ==
    /\ pc[i] = "inflight"
    /\ reply' = [reply EXCEPT ![i] = [kind |-> "response", status |-> r.status, body |-> r.body]]
    /\ result' = [result EXCEPT ![i] = HandleResponse(r.status, r.body)]
    /\ pc' = [pc EXCEPT ![i] = "done"]
    /\ UNCHANGED <<h, event, ctxDone, client, request, httpCalls>>

\* Variant: a failed call is sent again.
TransportFailureRetried(i) ==
    /\ pc[i] = "inflight"
    /\ httpCalls[i] < 3
    /\ httpCalls' = [httpCalls EXCEPT ![i] = @ + 1]
    /\ UNCHANGED <<h, pc, event, ctxDone, client, request, reply, result>>

\* main.go 109-113: client.Do fails (connection, DNS, TLS).
TransportFailure(i) ==
    /\ pc[i] = "inflight"
    /\ reply' = [reply EXCEPT ![i] = [kind |-> "error"]]
    /\ result' = [result EXCEPT ![i] = Outcome(Nil, ErrInternal)]
    /\ pc' = [pc EXCEPT ![i] = "done"]
    /\ UNCHANGED <<h, event, ctxDone, client, request, httpCalls>>

\* main.go 109-113: client.Do fails because client.Timeout expired; a client
\* whose Timeout is zero never times out.
ClientTimeout(i) ==
    /\ pc[i] = "inflight"
    /\ client[i].Timeout > 0
    /\ reply' = [reply EXCEPT ![i] = [kind |-> "timeout"]]
    /\ result' = [result EXCEPT ![i] = Outcome(Nil, ErrInternal)]
    /\ pc' = [pc EXCEPT ![i] = "done"]
    /\ UNCHANGED <<h, event, ctxDone, client, request, httpCalls>>

\* The runtime cancels the context it passed to HandleRequest (main.go 61).
\* The request was built by http.NewRequest, which binds it to
\* context.Background(): nothing in HandleRequest reads ctx.
CancelContext(i) ==
    /\ pc[i] = "inflight"
    /\ ~ctxDone[i]
    /\ ctxDone' = [ctxDone EXCEPT ![i] = TRUE]
    /\ UNCHANGED <<h, pc, event, client, request, httpCalls, reply, result>>

\* One invocation, every event and reply.
Next ==
    \/ \E ev \in Events : HandleRequest(1, ev)
    \/ \E r \in Replies : Respond(1, r)
    \/ TransportFailure(1)
    \/ ClientTimeout(1)
    \/ CancelContext(1)

Spec == Init /\ [][Next]_vars

\* Several invocations in parallel, as the hosting runtime may run them.
NextConc ==
    \E i \in Invs :
        \/ \E ev \in ConcEvents : HandleRequest(i, ev)
        \/ \E r \in ConcReplies : Respond(i, r)
        \/ TransportFailure(i)
        \/ ClientTimeout(i)
        \/ CancelContext(i)

SpecConc == Init /\ [][NextConc]_vars

(***************************************************************************)
(* Vocabulary of the properties, stated on the event itself                *)
(***************************************************************************)
Started(i) == pc[i] # "idle"

Done(i) == pc[i] = "done"

DirectiveIn(ev) == Lookup(ev.m, "directive")

HasDirective(ev) == DirectiveIn(ev).t = "obj"

\* directive.header is an object whose payloadVersion is the string "3".
PayloadVersionIs3(d) ==
    /\ "header" \in DOMAIN d.m
    /\ d.m["header"].t = "obj"
    /\ "payloadVersion" \in DOMAIN d.m["header"].m
    /\ d.m["header"].m["payloadVersion"] = JStr("3")

\* The three recognized scope locations, in priority order.
ScopeLocations == << <<"endpoint", "scope">>, <<"payload", "grantee">>, <<"payload", "scope">> >>

ValueAt(d, loc) ==
    IF loc[1] \in DOMAIN d.m /\ d.m[loc[1]].t = "obj" /\ loc[2] \in DOMAIN d.m[loc[1]].m
    THEN d.m[loc[1]].m[loc[2]]
    ELSE Nil

HoldsScope(d, n) == ValueAt(d, ScopeLocations[n]).t = "obj"

NoScopeAnywhere(d) == \A n \in 1..Len(ScopeLocations) : ~HoldsScope(d, n)

FirstScope(d) ==
    LET n == CHOOSE k \in 1..Len(ScopeLocations) :
                 HoldsScope(d, k) /\ \A l \in 1..(k - 1) : ~HoldsScope(d, l)
    IN  ValueAt(d, ScopeLocations[n])

FieldString(scope, k) ==
    IF k \in DOMAIN scope.m /\ scope.m[k].t = "str" THEN scope.m[k].s ELSE ""

\* A directive that passes every validation step.
Validated(ev) ==
    /\ HasDirective(ev)
    /\ PayloadVersionIs3(DirectiveIn(ev))
    /\ ~NoScopeAnywhere(DirectiveIn(ev))
    /\ FieldString(FirstScope(DirectiveIn(ev)), "type") = "BearerToken"

\* The credential the specification prescribes for a scope.
ExpectedCredential(scope, hh) ==
    IF FieldString(scope, "token") # "" THEN FieldString(scope, "token")
    ELSE IF hh.Debug THEN hh.LongLivedToken
    ELSE ""

\* The error taxonomy of the specification, by the message the code returns.
KindOf(err) ==
    CASE err \in {ErrMissingDirective, ErrMissingScope} -> "malformed-request"
      [] err = ErrPayloadVersion -> "unsupported-version"
      [] err = ErrBearerToken -> "unsupported-auth-type"
      [] err \in {ErrInternal, ErrSerialize} -> "internal-error"
      [] err = ErrDecode -> "response-decode-error"
      [] err = "INVALID_AUTHORIZATION_CREDENTIAL" -> "invalid-authorization-credential"
      [] err = "INTERNAL_ERROR" -> "internal-error"
      [] OTHER -> "unclassified"

(***************************************************************************)
(* C1                                                                      *)
(***************************************************************************)
\* C1: an event whose directive has a header.payloadVersion other than the
\* string "3" (also: no header, a header that is no object) ends in the
\* unsupported-version failure, and no HTTP call is made for it.
C1_UnsupportedVersion ==
    \A i \in Invs :
        (Started(i) /\ HasDirective(event[i]) /\ ~PayloadVersionIs3(DirectiveIn(event[i])))
            => /\ Done(i)
               /\ result[i] = Outcome(Nil, ErrPayloadVersion)
               /\ KindOf(result[i].err) = "unsupported-version"
               /\ httpCalls[i] = 0
               /\ request[i] = Nil

\* A directive without a header, carrying a valid scope, was rejected.
C1_Witness ==
    \E i \in Invs :
        /\ Done(i)
        /\ event[i] = EventOf(DirectiveOf(Nil, EndpointOf(BearerScope(JStr("tokA"))), Nil))
        /\ result[i].err = ErrPayloadVersion

(***************************************************************************)
(* C2                                                                      *)
(***************************************************************************)
\* C2 (as claimed): every directive with no scope object at any of the three
\* locations ends in a malformed-request failure, with no HTTP call.
C2_Original ==
    \A i \in Invs :
        (Started(i) /\ HasDirective(event[i]) /\ NoScopeAnywhere(DirectiveIn(event[i])))
            => /\ Done(i)
               /\ KindOf(result[i].err) = "malformed-request"
               /\ httpCalls[i] = 0

\* C2: every directive whose header.payloadVersion is "3" and that has no scope
\* object at any of the three locations ends in the malformed-request
\* failure; no directive without a scope leads to an HTTP call.
C2_MissingScope ==
    \A i \in Invs :
        (Started(i) /\ HasDirective(event[i]) /\ NoScopeAnywhere(DirectiveIn(event[i])))
            => /\ Done(i)
               /\ httpCalls[i] = 0
               /\ request[i] = Nil
               /\ PayloadVersionIs3(DirectiveIn(event[i]))
                    => /\ result[i] = Outcome(Nil, ErrMissingScope)
                       /\ KindOf(result[i].err) = "malformed-request"

\* A version-3 directive whose only scope candidates are not objects.
C2_Witness ==
    \E i \in Invs :
        /\ Done(i)
        /\ event[i] = EventOf(DirectiveOf(HeaderOf(JStr("3")), EndpointOf(JStr("scope")),
                                          PayloadOf(Nil, JStr("scope"))))
        /\ result[i].err = ErrMissingScope

(***************************************************************************)
(* C3                                                                      *)
(***************************************************************************)
\* C3: the scope that is type-checked and that supplies the credential is the
\* object at the first of endpoint.scope, payload.grantee, payload.scope that
\* holds an object, whatever the later locations hold.
C3_FirstMatchWins ==
    \A i \in Invs :
        (/\ Started(i)
         /\ HasDirective(event[i])
         /\ PayloadVersionIs3(DirectiveIn(event[i]))
         /\ ~NoScopeAnywhere(DirectiveIn(event[i])))
            => LET scope == FirstScope(DirectiveIn(event[i]))
               IN  IF FieldString(scope, "type") # "BearerToken"
                   THEN /\ Done(i)
                        /\ result[i] = Outcome(Nil, ErrBearerToken)
                        /\ httpCalls[i] = 0
                   ELSE /\ result[i].err # ErrBearerToken
                        /\ request[i] # Nil
                            => request[i].Authorization
                                 = "Bearer " \o ExpectedCredential(scope, h)

\* endpoint.scope is not a BearerToken scope, payload.grantee and payload.scope are.
C3_Witness ==
    \E i \in Invs :
        /\ Done(i)
        /\ event[i] = EventOf(DirectiveOf(HeaderOf(JStr("3")), EndpointOf(BasicScope),
                                PayloadOf(BearerScope(JStr("tokA")), BearerScope(JStr("tokA")))))
        /\ result[i].err = ErrBearerToken

(***************************************************************************)
(* C4                                                                      *)
(***************************************************************************)
\* C4: a backend status >= 400 ends the invocation in a failure classified by
\* the status: 401 and 403 as invalid-authorization-credential, every other
\* one as internal-error.
C4_StatusClassified ==
    \A i \in Invs :
        (Done(i) /\ reply[i].kind = "response" /\ reply[i].status >= 400)
            => /\ result[i].doc = Nil
               /\ KindOf(result[i].err) = KindOf(errorType(reply[i].status))

(***************************************************************************)
(* C5                                                                      *)
(***************************************************************************)
\* C5: for a validated directive the Authorization header carries scope.token
\* when it is non-empty, the fallback long-lived token when it is empty or
\* absent and the handler is in debug mode, and the empty string when it is
\* empty or absent and the handler is not in debug mode; an empty token makes
\* no failure before the HTTP call.
C5_Credential ==
    \A i \in Invs :
        (Started(i) /\ Validated(event[i]))
            => LET scope == FirstScope(DirectiveIn(event[i]))
                   token == FieldString(scope, "token")
               IN  /\ URLParses(RequestURL(h)) => (httpCalls[i] = 1 /\ request[i] # Nil)
                   /\ request[i] # Nil =>
                        /\ token # "" => request[i].Authorization = "Bearer " \o token
                        /\ (token = "" /\ h.Debug)
                             => request[i].Authorization = "Bearer " \o h.LongLivedToken
                        /\ (token = "" /\ ~h.Debug) => request[i].Authorization = "Bearer "

\* Not in debug mode, a scope without a token: the request went out with an
\* empty bearer credential.
C5_Witness ==
    \E i \in Invs :
        /\ ~h.Debug
        /\ event[i] = EventOf(DirectiveOf(HeaderOf(JStr("3")), Nil, PayloadOf(Nil, BearerScope(Nil))))
        /\ pc[i] = "inflight"
        /\ request[i].Authorization = "Bearer "

(***************************************************************************)
(* C6                                                                      *)
(***************************************************************************)
\* C6: every client createHTTPClient returns has the 10 second timeout, the
\* client bound to the overlay session as well as the direct one.
C6_TimeoutOnEveryClient ==
    \A i \in Invs : client[i] # Nil => client[i].Timeout = TimeoutSeconds

(***************************************************************************)
(* C7                                                                      *)
(***************************************************************************)
\* C7: once the context of an invocation is cancelled while the call is in
\* flight, the call ends aborted: the invocation's outcome is the
\* internal-error failure of an aborted call, never the backend's response.
C7_CancelAborts ==
    [][ \A i \in Invs :
            (ctxDone[i] /\ pc[i] = "inflight" /\ pc'[i] = "done")
                => /\ reply'[i].kind # "response"
                   /\ KindOf(result'[i].err) = "internal-error" ]_vars

(***************************************************************************)
(* C8                                                                      *)
(***************************************************************************)
Failed(i) == result[i].err \notin {NoErr, "pending"}

DocDiscover ==
    JObj([event |->
        JObj([header |-> JObj([name |-> JStr("Discover.Response"), payloadVersion |-> JStr("3")]),
              payload |-> JObj([endpoints |->
                            JArr(<<JObj([endpointId |-> JStr("device-001")])>>)])])])

DocRepeated == JObj([ok |-> JStr("second")])

\* C9: on a status < 400 the invocation returns the document the body decodes
\* to, with no error (the Discover.Response document with its endpoints list;
\* the nil document for the text null), and the response-decode-error failure
\* with no document when the body does not decode to a document.
C9_DocumentReturned ==
    \A i \in Invs :
        (Done(i) /\ reply[i].kind = "response" /\ reply[i].status < 400)
            => LET body == reply[i].body
               IN  /\ (body = <<>> \/ (body # <<>> /\ Head(body).w \in {"bad", "arr", "str"}))
                        => /\ result[i] = Outcome(Nil, ErrDecode)
                           /\ KindOf(result[i].err) = "response-decode-error"
                   /\ (body # <<>> /\ Head(body) = WireDiscover)
                        => result[i] = Outcome(DocDiscover, NoErr)
                   /\ (body # <<>> /\ Head(body) = WireRepeated)
                        => result[i] = Outcome(DocRepeated, NoErr)
                   /\ (body # <<>> /\ Head(body) = WNull)
                        => result[i] = Outcome(Nil, NoErr)

\* The Discover.Response document came back with its endpoints list.
C9_Witness ==
    \E i \in Invs :
        /\ Done(i)
        /\ reply[i].kind = "response"
        /\ reply[i].status = 200
        /\ reply[i].body = <<WireDiscover>>
        /\ result[i] = Outcome(DocDiscover, NoErr)
        /\ result[i].doc.m["event"].m["payload"].m["endpoints"]
             = JArr(<<JObj([endpointId |-> JStr("device-001")])>>)

(***************************************************************************)
(* C10                                                                     *)
(***************************************************************************)
\* The request and the outcome of an invocation as functions of its own
\* event, the handler and the reply to its own request.
ExpectedRequest(ev, hh) ==
    IF Validated(ev) /\ URLParses(RequestURL(hh))
    THEN [ Method |-> "POST",
           URL |-> hh.BaseURL \o <<"/api/alexa/smart_home">>,
           Authorization |-> "Bearer " \o ExpectedCredential(FirstScope(DirectiveIn(ev)), hh),
           ContentType |-> "application/json",
           Body |-> Marshal(ev) ]
    ELSE Nil

ExpectedResult(ev, hh, rep) ==
    IF ~HasDirective(ev) THEN Outcome(Nil, ErrMissingDirective)
    ELSE IF ~PayloadVersionIs3(DirectiveIn(ev)) THEN Outcome(Nil, ErrPayloadVersion)
    ELSE IF NoScopeAnywhere(DirectiveIn(ev)) THEN Outcome(Nil, ErrMissingScope)
    ELSE IF ~Validated(ev) THEN Outcome(Nil, ErrBearerToken)
    ELSE IF ~URLParses(RequestURL(hh)) THEN Outcome(Nil, ErrInternal)
    ELSE IF rep.kind = "response" THEN HandleResponse(rep.status, rep.body)
    ELSE Outcome(Nil, ErrInternal)

\* C10: whatever the interleaving of the invocations, the handler is never
\* written after construction, and the request and the outcome of each
\* invocation are determined by its own event, the handler and the reply to
\* its own request.
C10_Independent ==
    /\ [](\A i \in Invs :
            Started(i) => /\ request[i] = ExpectedRequest(event[i], h)
                          /\ Done(i) => result[i] = ExpectedResult(event[i], h, reply[i]))
    /\ [][h' = h]_vars

\* Two invocations in flight at once, with different credentials.
C10_Witness ==
    /\ pc[1] = "inflight"
    /\ pc[2] = "inflight"
    /\ request[1].Authorization = "Bearer tokA"
    /\ request[2].Authorization = "Bearer tokC"

====
